---- MODULE Spec2Model ----
(***************************************************************************)
(* The development worker of waku: dev-worker-impl.ts.                     *)
(*                                                                         *)
(* The worker receives tagged request messages on parentPort, runs one     *)
(* asynchronous handler per request (handleRender, handleGetSsrConfig),    *)
(* and posts tagged responses.  All handlers share one vitePromise.  The   *)
(* worker is single threaded: every action below is the code that runs     *)
(* between two suspension points (await) of one handler or callback.       *)
(*                                                                         *)
(* Code that the file imports (renderRsc, getSsrConfig, deepFreeze,        *)
(* hasStatusCode, the vite server, the plugins) is not part of the file;   *)
(* it appears here as the environment: its results are inputs drawn from   *)
(* small sets.  parentPort.postMessage is taken to deliver every message.  *)
(***************************************************************************)
EXTENDS Integers, Sequences, FiniteSets, TLC

\* ------------------------------------------------------------------ bounds
\* number of inbound messages the host sends (ids 1..MaxReq)
MaxReq == 2
\* module ids one render pipeline reports at most
MaxReports == 2
\* successful context mutations per request at most
MaxMut == 1
\* unsolicited plugin events at most
MaxEvents == 1

Ids == 1..MaxReq

\* ------------------------------------------------------------ input domains
\* the payload the host sends with id i: its content never steers the worker, so
\* one value per request, different for different requests
Input(i) == <<"/page", i>>
\* the k-th module id a render pipeline resolves: m1, m2, ...
ModuleIdAt(k) == <<"m", k>>
ReloadKinds == {"full-reload"}
DelegateInputs == {[kind |-> "object", value |-> "result"],
                   [kind |-> "string", value |-> "source"]}

\* values a pipeline may throw
Errors == {[message |-> "boom"], [message |-> "not found", statusCode |-> 404]}
\* the value loading the entries module may fail with
EntriesError == [message |-> "entries failed"]
\* the value the vite server construction may fail with
ViteError == [message |-> "vite failed"]
\* the value deepFreeze may throw
FreezeError == [message |-> "cannot freeze"]

NoMesg == [type |-> "none"]
Null == [null |-> TRUE]

VARIABLES
    nextId,         \* host side: id of the next message to arrive
    mesg,           \* mesg[i]: the inbound message with id i (NoMesg before it arrives)
    pc,             \* pc[i]: where the handler of message i is suspended
    rr,             \* rr[i]: the RenderRequest of handleRender (context, callback)
    frozen,         \* frozen[i]: rr[i].context has been deep-frozen
    rejectedWrites, \* rejectedWrites[i]: a write to the frozen context was rejected
    calls,          \* calls[i]: invocations of renderRsc / getSsrConfig for i
    reported,       \* reported[i]: module ids the pipeline reported, in order
    out,            \* parentPort.postMessage calls, in order
    vite,           \* vitePromise: its state and the instance it resolves to
    createCalls,    \* number of createViteServer calls
    loaded,         \* ssrLoadModule calls: who called, on which instance
    moduleImports,  \* the Set shared with the plugins
    unhandled,      \* ids whose handler promise rejected (nobody awaits it)
    thrown,         \* thrown[i]: the value thrown inside the try block of handler i
    returned,       \* returned[i]: the value the pipeline of handler i resolved to
    events          \* number of plugin events so far

vars == <<nextId, mesg, pc, rr, frozen, rejectedWrites, calls, reported, out,
          vite, createCalls, loaded, moduleImports, unhandled, thrown, returned, events>>

\* ---------------------------------------------------------------- messages
\* inbound messages the host may send with id i
RenderReqs(i) ==
    {[id |-> i, type |-> "render", input |-> Input(i), context |-> [n |-> 0],
      hasModuleIdCallback |-> cb] : cb \in BOOLEAN}

SsrReqs(i) ==
    {[id |-> i, type |-> "getSsrConfig", pathname |-> Input(i)]}

OtherReqs(i) == {[id |-> i, type |-> "ping"]}

Inbound(i) == RenderReqs(i) \cup SsrReqs(i) \cup OtherReqs(i)

\* parentPort.postMessage(mesg, transferList); by is the caller, kept for the
\* record only: a handler's index, or 0 for a plugin callback
PostMessage(o, by, m, transferList) ==
    Append(o, [mesg |-> m, transferList |-> transferList, by |-> by])

\* ------------------------------------------------------ imported functions
\* hasStatusCode(err): the error exposes a status-code attribute
hasStatusCode(err) == "statusCode" \in DOMAIN err

\* the stream renderRsc resolves to for a render request
Readable(r) == [rsc |-> r.input]

\* what the SSR-config resolver may yield for a pathname: nothing, a config,
\* or a config with further fields of its own
SsrConfigs(pathname) ==
    {Null,
     [input |-> pathname, body |-> [html |-> pathname]],
     [input |-> pathname, body |-> [html |-> pathname], id |-> 1, type |-> "config"]}

AllSsrConfigs == UNION {SsrConfigs(Input(i)) : i \in Ids}

NoRR == [none |-> TRUE]
Pending == [pending |-> TRUE]

\* ----------------------------------------------------------- construction
\* a module top level that leaves the construction to the first caller
InitLazy ==
    /\ nextId = 1
    /\ mesg = [i \in Ids |-> NoMesg]
    /\ pc = [i \in Ids |-> "none"]
    /\ rr = [i \in Ids |-> NoRR]
    /\ frozen = [i \in Ids |-> FALSE]
    /\ rejectedWrites = [i \in Ids |-> FALSE]
    /\ calls = [i \in Ids |-> 0]
    /\ reported = [i \in Ids |-> <<>>]
    /\ out = <<>>
    /\ vite = [state |-> "idle", instance |-> 1]
    /\ createCalls = 0
    /\ loaded = {}
    /\ moduleImports = {}
    /\ unhandled = {}
    /\ thrown = [i \in Ids |-> Null]
    /\ returned = [i \in Ids |-> Pending]
    /\ events = 0

Init ==
    /\ nextId = 1
    /\ mesg = [i \in Ids |-> NoMesg]
    /\ pc = [i \in Ids |-> "none"]
    /\ rr = [i \in Ids |-> NoRR]
    /\ frozen = [i \in Ids |-> FALSE]
    /\ rejectedWrites = [i \in Ids |-> FALSE]
    /\ calls = [i \in Ids |-> 0]
    /\ reported = [i \in Ids |-> <<>>]
    /\ out = <<>>
    /\ vite = [state |-> "creating", instance |-> 1]
    /\ createCalls = 1
    /\ loaded = {}
    /\ moduleImports = {}
    /\ unhandled = {}
    /\ thrown = [i \in Ids |-> Null]
    /\ returned = [i \in Ids |-> Pending]
    /\ events = 0

\* ------------------------------------------------------------- vitePromise
\* a .then callback that returns the server without closing vite.ws
ViteCreatedNoClose ==
    /\ vite.state = "creating"
    /\ vite' = [vite EXCEPT !.state = "ready"]
    /\ UNCHANGED <<nextId, mesg, pc, rr, frozen, rejectedWrites, calls, reported, out,
                   createCalls, loaded, moduleImports, unhandled, thrown, returned, events>>

\* createViteServer(mergedViteConfig) resolves; the .then callback calls vite.ws.close()
ViteCreated ==
    /\ vite.state = "creating"
    /\ vite' = [vite EXCEPT !.state = "closing"]
    /\ UNCHANGED <<nextId, mesg, pc, rr, frozen, rejectedWrites, calls, reported, out,
                   createCalls, loaded, moduleImports, unhandled, thrown, returned, events>>

\* createViteServer(mergedViteConfig) rejects
ViteCreateFailed ==
    /\ vite.state = "creating"
    /\ vite' = [vite EXCEPT !.state = "failed"]
    /\ UNCHANGED <<nextId, mesg, pc, rr, frozen, rejectedWrites, calls, reported, out,
                   createCalls, loaded, moduleImports, unhandled, thrown, returned, events>>

\* await vite.ws.close() returns; vitePromise is fulfilled with vite
WsClosed ==
    /\ vite.state = "closing"
    /\ vite' = [vite EXCEPT !.state = "ready"]
    /\ UNCHANGED <<nextId, mesg, pc, rr, frozen, rejectedWrites, calls, reported, out,
                   createCalls, loaded, moduleImports, unhandled, thrown, returned, events>>

\* await vite.ws.close() throws; vitePromise is rejected
WsCloseFailed ==
    /\ vite.state = "closing"
    /\ vite' = [vite EXCEPT !.state = "failed"]
    /\ UNCHANGED <<nextId, mesg, pc, rr, frozen, rejectedWrites, calls, reported, out,
                   createCalls, loaded, moduleImports, unhandled, thrown, returned, events>>

\* a loadEntries that stands up a server of its own instead of awaiting vitePromise
LoadEntriesOwnServer(i) ==
    /\ vite.state = "ready"
    /\ createCalls' = createCalls + 1
    /\ loaded' = loaded \cup {[by |-> "loadEntries", instance |-> createCalls + 1]}
    /\ UNCHANGED vite

\* a loadEntries that constructs the server again once vitePromise has rejected
LoadEntriesRebuild(i) ==
    /\ vite.state \in {"ready", "failed"}
    /\ IF vite.state = "ready"
       THEN /\ loaded' = loaded \cup {[by |-> "loadEntries", instance |-> vite.instance]}
            /\ UNCHANGED <<vite, createCalls>>
       ELSE /\ createCalls' = createCalls + 1
            /\ vite' = [state |-> "ready", instance |-> createCalls + 1]
            /\ loaded' = loaded \cup {[by |-> "loadEntries", instance |-> createCalls + 1]}

\* loadEntries(config) once `await vitePromise` has returned the instance:
\* vite.ssrLoadModule(filePath) on that instance
LoadEntries(i) ==
    /\ vite.state = "ready"
    /\ loaded' = loaded \cup {[by |-> "loadEntries", instance |-> vite.instance]}
    /\ UNCHANGED <<vite, createCalls>>

\* loadServerFile(fileURL): await vitePromise, then vite.ssrLoadModule(...)
LoadServerFile(i) ==
    /\ vite.state = "ready"
    /\ loaded' = loaded \cup {[by |-> "loadServerFile", instance |-> vite.instance]}
    /\ UNCHANGED <<vite, createCalls>>

\* --------------------------------------------------------------- responses
\* a forwarding function that puts its message ahead of what was posted before
moduleIdCallbackAhead(id, moduleId, o) ==
    <<[mesg |-> [id |-> id, type |-> "moduleId", moduleId |-> moduleId],
       transferList |-> {}, by |-> id]>> \o o

\* rr.moduleIdCallback: posts one moduleId message
moduleIdCallback(id, moduleId, o) ==
    PostMessage(o, id, [id |-> id, type |-> "moduleId", moduleId |-> moduleId], {})

\* the start message and its transfer list
StartMesg(id, r, readable) ==
    [id |-> id, type |-> "start", context |-> r.context, stream |-> readable]

\* a catch block that leaves the status code out
RenderErrMesgNoStatus(id, err) == [id |-> id, type |-> "err", err |-> err]

\* the err message of handleRender's catch block
RenderErrMesg(id, err) ==
    IF hasStatusCode(err)
    THEN [id |-> id, type |-> "err", err |-> err, statusCode |-> err.statusCode]
    ELSE [id |-> id, type |-> "err", err |-> err]

\* the err message of handleGetSsrConfig's catch block
SsrErrMesg(id, err) ==
    IF hasStatusCode(err)
    THEN [id |-> id, type |-> "err", err |-> err, statusCode |-> err.statusCode]
    ELSE [id |-> id, type |-> "err", err |-> err]

\* ssrConfig ? { id, type: 'ssrConfig', ...ssrConfig } : { id, type: 'noSsrConfig' }
\* (the spread comes last: its fields win over the ones written before it)
SsrMesg(id, ssrConfig) ==
    IF ssrConfig # Null
    THEN ssrConfig @@ [id |-> id, type |-> "ssrConfig"]
    ELSE [id |-> id, type |-> "noSsrConfig"]

\* a response posted without its transfer list
SsrTransferListNone(ssrConfig) == {}

\* ssrConfig ? [ssrConfig.body] : undefined
SsrTransferList(ssrConfig) ==
    IF ssrConfig # Null THEN {ssrConfig.body} ELSE {}

\* a handleRender without the catch block: the failure leaves the handler
RenderNoCatch(i, o, err) ==
    /\ thrown' = [thrown EXCEPT ![i] = err]
    /\ out' = o
    /\ unhandled' = unhandled \cup {i}

\* catch (err) of handleRender: o is what was posted so far in this step
RenderCatch(i, o, err) ==
    /\ thrown' = [thrown EXCEPT ![i] = err]
    /\ out' = PostMessage(o, i, RenderErrMesg(mesg[i].id, err), {})
    /\ UNCHANGED unhandled

\* a handleGetSsrConfig without the catch block: the failure leaves the handler
SsrNoCatch(i, o, err) ==
    /\ thrown' = [thrown EXCEPT ![i] = err]
    /\ out' = o
    /\ unhandled' = unhandled \cup {i}

\* catch (err) of handleGetSsrConfig
SsrCatch(i, o, err) ==
    /\ thrown' = [thrown EXCEPT ![i] = err]
    /\ out' = PostMessage(o, i, SsrErrMesg(mesg[i].id, err), {})
    /\ UNCHANGED unhandled

Catch(i, o, err) ==
    IF mesg[i].type = "render" THEN RenderCatch(i, o, err) ELSE SsrCatch(i, o, err)

\* ---------------------------------------------------------------- dispatch
\* a handleRender that sets the forwarding function whatever the flag says
HandleRenderAlwaysCallback(m) ==
    /\ rr' = [rr EXCEPT ![m.id] = [input |-> m.input, context |-> m.context,
                                   moduleIdCallback |-> TRUE]]
    /\ pc' = [pc EXCEPT ![m.id] = "awaitVite"]

\* handleRender(mesg) up to its first suspension, inside loadEntries
HandleRender(m) ==
    /\ rr' = [rr EXCEPT ![m.id] = [input |-> m.input, context |-> m.context,
                                   moduleIdCallback |-> m.hasModuleIdCallback]]
    /\ pc' = [pc EXCEPT ![m.id] = "awaitVite"]

\* handleGetSsrConfig(mesg) up to its first suspension, inside loadEntries
HandleGetSsrConfig(m) ==
    /\ pc' = [pc EXCEPT ![m.id] = "awaitVite"]
    /\ UNCHANGED rr

\* a listener that takes a message only when no handler is in flight
OnMessageSerial(m) ==
    /\ \A j \in Ids : pc[j] \notin {"awaitVite", "loadEntries", "pipeline"}
    /\ nextId <= MaxReq
    /\ m \in Inbound(nextId)
    /\ nextId' = nextId + 1
    /\ mesg' = [mesg EXCEPT ![m.id] = m]
    /\ IF m.type = "render" THEN HandleRender(m)
       ELSE IF m.type = "getSsrConfig" THEN HandleGetSsrConfig(m)
       ELSE UNCHANGED <<pc, rr>>
    /\ UNCHANGED <<frozen, rejectedWrites, calls, reported, out, vite, createCalls,
                   loaded, moduleImports, unhandled, thrown, returned, events>>

\* a listener whose second branch is a plain else
OnMessageElse(m) ==
    /\ nextId <= MaxReq
    /\ m \in Inbound(nextId)
    /\ nextId' = nextId + 1
    /\ mesg' = [mesg EXCEPT ![m.id] = m]
    /\ IF m.type = "render" THEN HandleRender(m)
       ELSE HandleGetSsrConfig(m)
    /\ UNCHANGED <<frozen, rejectedWrites, calls, reported, out, vite, createCalls,
                   loaded, moduleImports, unhandled, thrown, returned, events>>

\* parentPort.on('message', ...)
OnMessage(m) ==
    /\ nextId <= MaxReq
    /\ m \in Inbound(nextId)
    /\ nextId' = nextId + 1
    /\ mesg' = [mesg EXCEPT ![m.id] = m]
    /\ IF m.type = "render" THEN HandleRender(m)
       ELSE IF m.type = "getSsrConfig" THEN HandleGetSsrConfig(m)
       ELSE UNCHANGED <<pc, rr>>
    /\ UNCHANGED <<frozen, rejectedWrites, calls, reported, out, vite, createCalls,
                   loaded, moduleImports, unhandled, thrown, returned, events>>

\* ------------------------------------------------- awaiting the entries
\* `await vitePromise` in loadEntries returns: the entry module load starts
EntriesRequested(i) ==
    /\ pc[i] = "awaitVite"
    /\ LoadEntries(i)
    /\ pc' = [pc EXCEPT ![i] = "loadEntries"]
    /\ UNCHANGED <<nextId, mesg, rr, frozen, rejectedWrites, calls, reported, out,
                   moduleImports, unhandled, thrown, returned, events>>

\* `await vitePromise` in loadEntries throws: the handler's try block catches it
LoaderRejected(i) ==
    /\ pc[i] = "awaitVite"
    /\ vite.state = "failed"
    /\ Catch(i, out, ViteError)
    /\ pc' = [pc EXCEPT ![i] = "done"]
    /\ UNCHANGED <<nextId, mesg, rr, frozen, rejectedWrites, calls, reported,
                   vite, createCalls, loaded, moduleImports, returned, events>>

\* vite.ssrLoadModule(filePath) resolves: the handler calls renderRsc / getSsrConfig
EntriesLoaded(i) ==
    /\ pc[i] = "loadEntries"
    /\ calls' = [calls EXCEPT ![i] = @ + 1]
    /\ pc' = [pc EXCEPT ![i] = "pipeline"]
    /\ UNCHANGED <<nextId, mesg, rr, frozen, rejectedWrites, reported, out,
                   vite, createCalls, loaded, moduleImports, unhandled, thrown, returned, events>>

\* a handler that goes on to call the pipeline although loading the entries failed
EntriesFailedThenCall(i, err) ==
    /\ pc[i] = "loadEntries"
    /\ err = EntriesError
    /\ thrown' = [thrown EXCEPT ![i] = err]
    /\ calls' = [calls EXCEPT ![i] = @ + 1]
    /\ pc' = [pc EXCEPT ![i] = "pipeline"]
    /\ UNCHANGED <<nextId, mesg, rr, frozen, rejectedWrites, reported, out, unhandled,
                   vite, createCalls, loaded, moduleImports, returned, events>>

\* vite.ssrLoadModule(filePath) rejects: caught by the handler
EntriesFailed(i, err) ==
    /\ pc[i] = "loadEntries"
    /\ err = EntriesError
    /\ Catch(i, out, err)
    /\ pc' = [pc EXCEPT ![i] = "done"]
    /\ UNCHANGED <<nextId, mesg, rr, frozen, rejectedWrites, calls, reported,
                   vite, createCalls, loaded, moduleImports, returned, events>>

\* ------------------------------------------------- the render pipeline
\* renderRsc reports a resolved module id: it calls rr.moduleIdCallback if one was set
ReportModuleId(i) ==
    /\ pc[i] = "pipeline"
    /\ mesg[i].type = "render"
    /\ Len(reported[i]) < MaxReports
    /\ LET moduleId == ModuleIdAt(Len(reported[i]) + 1) IN       /\ reported' = [reported EXCEPT ![i] = Append(@, moduleId)]
       /\ out' = IF rr[i].moduleIdCallback
                 THEN moduleIdCallback(mesg[i].id, moduleId, out)
                 ELSE out
    /\ UNCHANGED <<nextId, mesg, pc, rr, frozen, rejectedWrites, calls,
                   vite, createCalls, loaded, moduleImports, unhandled, thrown, returned, events>>

\* renderRsc loads a server file through customImport: loadServerFile
CustomImport(i) ==
    /\ pc[i] = "pipeline"
    /\ mesg[i].type = "render"
    /\ LoadServerFile(i)
    /\ UNCHANGED <<nextId, mesg, pc, rr, frozen, rejectedWrites, calls, reported, out,
                   moduleImports, unhandled, thrown, returned, events>>

\* pipeline code writes to rr.context, before the stream starts or while it is
\* produced: a write to a frozen object is rejected
MutateContext(i) ==
    /\ pc[i] \in {"pipeline", "streaming"}
    /\ mesg[i].type = "render"
    /\ IF frozen[i]
       THEN /\ rejectedWrites' = [rejectedWrites EXCEPT ![i] = TRUE]
            /\ UNCHANGED rr
       ELSE /\ rr[i].context.n < MaxMut
            /\ rr' = [rr EXCEPT ![i].context.n = @ + 1]
            /\ UNCHANGED rejectedWrites
    /\ UNCHANGED <<nextId, mesg, pc, frozen, calls, reported, out,
                   vite, createCalls, loaded, moduleImports, unhandled, thrown, returned, events>>

\* deepFreeze(rr.context) returns
deepFreeze(f, i) == [f EXCEPT ![i] = TRUE]

\* `await renderRsc(...)` returns the stream: the handler posts start with the
\* stream in the transfer list, then deepFreeze(rr.context); all of it inside the try
\* block, so a deepFreeze that throws lands in the catch block
RenderResolved(i, freezes) ==
    /\ pc[i] = "pipeline"
    /\ mesg[i].type = "render"
    /\ LET readable == Readable(rr[i])
           o == PostMessage(out, i, StartMesg(mesg[i].id, rr[i], readable), {readable})
       IN  IF freezes
           THEN /\ out' = o
                /\ frozen' = deepFreeze(frozen, i)
                /\ UNCHANGED <<unhandled, thrown>>
           ELSE /\ RenderCatch(i, o, FreezeError)
                /\ UNCHANGED frozen
    /\ returned' = [returned EXCEPT ![i] = Readable(rr[i])]
    /\ pc' = [pc EXCEPT ![i] = "streaming"]
    /\ UNCHANGED <<nextId, mesg, rr, rejectedWrites, calls, reported,
                   vite, createCalls, loaded, moduleImports, events>>

\* `await renderRsc(...)` throws
RenderRejected(i, err) ==
    /\ pc[i] = "pipeline"
    /\ mesg[i].type = "render"
    /\ RenderCatch(i, out, err)
    /\ pc' = [pc EXCEPT ![i] = "done"]
    /\ UNCHANGED <<nextId, mesg, rr, frozen, rejectedWrites, calls, reported,
                   vite, createCalls, loaded, moduleImports, returned, events>>

\* --------------------------------------------- the SSR-config pipeline
\* `await getSsrConfig(...)` returns a config or nothing
SsrResolved(i, ssrConfig) ==
    /\ pc[i] = "pipeline"
    /\ mesg[i].type = "getSsrConfig"
    /\ ssrConfig \in SsrConfigs(mesg[i].pathname)
    /\ returned' = [returned EXCEPT ![i] = ssrConfig]
    /\ out' = PostMessage(out, i, SsrMesg(mesg[i].id, ssrConfig),
                           SsrTransferList(ssrConfig))
    /\ pc' = [pc EXCEPT ![i] = "done"]
    /\ UNCHANGED <<nextId, mesg, rr, frozen, rejectedWrites, calls, reported,
                   vite, createCalls, loaded, moduleImports, unhandled, thrown, events>>

\* `await getSsrConfig(...)` throws
SsrRejected(i, err) ==
    /\ pc[i] = "pipeline"
    /\ mesg[i].type = "getSsrConfig"
    /\ SsrCatch(i, out, err)
    /\ pc' = [pc EXCEPT ![i] = "done"]
    /\ UNCHANGED <<nextId, mesg, rr, frozen, rejectedWrites, calls, reported,
                   vite, createCalls, loaded, moduleImports, returned, events>>

\* ------------------------------------------------------- plugin callbacks
\* the callback given to rscReloadPlugin
ReloadEvent(type) ==
    /\ events < MaxEvents
    /\ events' = events + 1
    /\ out' = PostMessage(out, 0, [type |-> type], {})
    /\ UNCHANGED <<nextId, mesg, pc, rr, frozen, rejectedWrites, calls, reported,
                   vite, createCalls, loaded, moduleImports, unhandled, thrown, returned>>

\* the callback given to rscDelegatePlugin; the plugin records the import
DelegateEvent(resultOrSource) ==
    /\ events < MaxEvents
    /\ events' = events + 1
    /\ out' = PostMessage(out, 0,
                 IF resultOrSource.kind = "object"
                 THEN [type |-> "module-import", result |-> resultOrSource.value]
                 ELSE [type |-> "hot-import", source |-> resultOrSource.value],
                 {})
    /\ moduleImports' = moduleImports \cup {resultOrSource.value}
    /\ UNCHANGED <<nextId, mesg, pc, rr, frozen, rejectedWrites, calls, reported,
                   vite, createCalls, loaded, unhandled, thrown, returned>>

\* ----------------------------------------------------------- specification
Next ==
    \/ \E m \in Inbound(nextId) : OnMessage(m)
    \/ ViteCreated
    \/ ViteCreateFailed
    \/ WsClosed
    \/ WsCloseFailed
    \/ \E i \in Ids : EntriesRequested(i)
    \/ \E i \in Ids : LoaderRejected(i)
    \/ \E i \in Ids : EntriesLoaded(i)
    \/ \E i \in Ids : EntriesFailed(i, EntriesError)
    \/ \E i \in Ids : ReportModuleId(i)
    \/ \E i \in Ids : CustomImport(i)
    \/ \E i \in Ids : MutateContext(i)
    \/ \E i \in Ids, freezes \in BOOLEAN : RenderResolved(i, freezes)
    \/ \E i \in Ids, err \in Errors : RenderRejected(i, err)
    \/ \E i \in Ids, ssrConfig \in AllSsrConfigs : SsrResolved(i, ssrConfig)
    \/ \E i \in Ids, err \in Errors : SsrRejected(i, err)
    \/ \E type \in ReloadKinds : ReloadEvent(type)
    \/ \E resultOrSource \in DelegateInputs : DelegateEvent(resultOrSource)

Spec == Init /\ [][Next]_vars

\* ============================================================== properties
\* the elements of a sequence
Range(sq) == {sq[k] : k \in 1..Len(sq)}

\* the messages handler i posted, in order
PostedBy(i) == SelectSeq(out, LAMBDA p : p.by = i)

\* the posted messages that carry correlation id i, in order
Carrying(i) == SelectSeq(out, LAMBDA p : "id" \in DOMAIN p.mesg /\ p.mesg.id = i)

IsTerminal(p) == p.mesg.type \in {"start", "err"}

\* the terminal responses the host receives for id i
TerminalsOf(i) == SelectSeq(Carrying(i), IsTerminal)

\* the handler of message i has run to its end
Finished(i) == pc[i] \in {"done", "streaming"}

IsRender(i) == mesg[i].type = "render"
IsSsr(i) == mesg[i].type = "getSsrConfig"

\* C1: a render request with id i gets exactly one terminal response (start or
\* err) carrying id i: never two at any time, and exactly one once its handler
\* has run to its end.
C1_ExactlyOneTerminal ==
    \A i \in Ids :
        IsRender(i) =>
            /\ Len(TerminalsOf(i)) <= 1
            /\ Finished(i) => Len(TerminalsOf(i)) = 1
                              /\ TerminalsOf(i)[1].mesg.id = i

\* the module ids of the moduleId responses handler i posted, in order
ModuleIdsBy(i) ==
    LET ms == SelectSeq(PostedBy(i), LAMBDA p : p.mesg.type = "moduleId")
    IN  [k \in 1..Len(ms) |-> ms[k].mesg.moduleId]

C3_NoCrossTalk ==
    \A k \in 1..Len(out) :
        out[k].by \in Ids =>
            /\ "id" \in DOMAIN out[k].mesg
            /\ out[k].mesg.id = out[k].by
            /\ out[k].mesg.type = "start" =>
                  out[k].mesg.stream = Readable(rr[out[k].by])
            /\ out[k].mesg.type = "ssrConfig" =>
                  out[k].mesg.input = mesg[out[k].by].pathname

\* the fields of the response that the worker itself sets
ReservedFields == {"id", "type"}

\* C4: a getSsrConfig request with id i is answered by exactly one message:
\* noSsrConfig with id i when the resolver yields nothing, else ssrConfig with
\* id i carrying every field the resolver provided.
C4_SsrConfigOrNoSsrConfig ==
    \A i \in Ids :
        (IsSsr(i) /\ returned[i] # Pending) =>
            LET ms == PostedBy(i) IN
            /\ Len(ms) = 1
            /\ IF returned[i] = Null
               THEN ms[1].mesg = [id |-> i, type |-> "noSsrConfig"]
               ELSE /\ ms[1].mesg.id = i
                    /\ ms[1].mesg.type = "ssrConfig"
                    /\ \A f \in DOMAIN returned[i] \ ReservedFields :
                          f \in DOMAIN ms[1].mesg /\ ms[1].mesg[f] = returned[i][f]

\* C5: createViteServer is called once, and every ssrLoadModule call made by
\* loadEntries and loadServerFile is made on the one instance vitePromise holds.
C5_OneLoaderInstance ==
    /\ createCalls = 1
    /\ \A l \in loaded : l.instance = 1 /\ l.instance = vite.instance

\* two requests had their entries loaded and a pipeline used loadServerFile
C5_Witness ==
    /\ Cardinality({i \in Ids : calls[i] = 1}) >= 2
    /\ \E l \in loaded : l.by = "loadServerFile"
    /\ \E l \in loaded : l.by = "loadEntries"

\* C6: an err response carries the thrown value unchanged in err, a statusCode
\* equal to the value's status code if it has one, and no statusCode field
\* otherwise; for render and getSsrConfig alike.
C6_ErrStatusCode ==
    \A k \in 1..Len(out) :
        (out[k].by \in Ids /\ out[k].mesg.type = "err") =>
            LET m == out[k].mesg
                e == thrown[out[k].by]
            IN  /\ m.err = e
                /\ ("statusCode" \in DOMAIN e) =>
                      ("statusCode" \in DOMAIN m /\ m.statusCode = e.statusCode)
                /\ ("statusCode" \notin DOMAIN e) => "statusCode" \notin DOMAIN m

\* a render and a getSsrConfig request failed, one with a status code, one without
C6_Witness ==
    \E i, j \in Ids :
        /\ IsRender(i) /\ IsSsr(j)
        /\ \E k, l \in 1..Len(out) :
              /\ out[k].by = i /\ out[l].by = j
              /\ out[k].mesg.type = "err" /\ out[l].mesg.type = "err"
              /\ "statusCode" \in DOMAIN out[k].mesg
              /\ out[k].mesg.statusCode = 404
              /\ "statusCode" \notin DOMAIN out[l].mesg

StartSent(i) == \E k \in 1..Len(out) : out[k].by = i /\ out[k].mesg.type = "start"

\* C7: once the start response of a render request has been sent, no step
\* changes that request's context map.
C7_ContextFrozenAfterStart ==
    [][\A i \in Ids : StartSent(i) => rr'[i] = rr[i]]_vars

InFlight(i) == pc[i] \in {"awaitVite", "loadEntries", "pipeline"}

\* the next inbound message, whatever it is, is taken by the listener
Listening == nextId <= MaxReq => \A m \in Inbound(nextId) : ENABLED OnMessage(m)

\* the step handler i waits for can be taken, whatever the other handlers do
CanResume(i) ==
    /\ (pc[i] = "awaitVite" /\ vite.state = "ready") => ENABLED EntriesRequested(i)
    /\ (pc[i] = "awaitVite" /\ vite.state = "failed") => ENABLED LoaderRejected(i)
    /\ pc[i] = "loadEntries" => ENABLED EntriesLoaded(i)
    /\ (pc[i] = "pipeline" /\ IsRender(i)) =>
          /\ ENABLED RenderResolved(i, TRUE)
          /\ \A err \in Errors : ENABLED RenderRejected(i, err)
    /\ (pc[i] = "pipeline" /\ IsSsr(i)) =>
          /\ \A c \in SsrConfigs(mesg[i].pathname) : ENABLED SsrResolved(i, c)
          /\ \A err \in Errors : ENABLED SsrRejected(i, err)

\* a handler that ends in this step posts its response in this step, as the
\* last message of the channel: responses leave in the order handlers end
PostsOnCompletion ==
    \A i \in Ids :
        (InFlight(i) /\ Finished(i)') =>
            /\ Len(out') > Len(out)
            /\ SubSeq(out', 1, Len(out)) = out
            /\ out'[Len(out')].by = i

\* C8: requests are not serialized: while handlers are pending the listener
\* takes the next message, every pending handler can take its next step whatever
\* the others do, and a response is posted at the moment its handler ends.
C8_NotSerialized ==
    /\ [](Listening /\ \A i \in Ids : CanResume(i))
    /\ [][PostsOnCompletion]_vars

\* a getSsrConfig that arrived after a render has been answered while the
\* render's pipeline is still pending
C8_Witness ==
    \E i, j \in Ids :
        /\ i < j
        /\ IsRender(i) /\ pc[i] = "pipeline"
        /\ IsSsr(j) /\ pc[j] = "done"
        /\ Len(PostedBy(j)) = 1

IsUnknown(m) == m.type \notin {"none", "render", "getSsrConfig"}

\* the step in which a message of an unknown type arrives
UnknownArrives == nextId' = nextId + 1 /\ IsUnknown(mesg'[nextId])

\* C9: a message whose type is neither render nor getSsrConfig is dropped: its
\* arrival changes nothing in the worker, no handler ever runs for it, nothing is
\* ever posted for it, and the listener takes the next message.
C9_UnknownTypeDropped ==
    /\ [][UnknownArrives =>
            UNCHANGED <<pc, rr, frozen, rejectedWrites, calls, reported, out, vite,
                        createCalls, loaded, moduleImports, unhandled, thrown,
                        returned, events>>]_vars
    /\ [](\A i \in Ids : IsUnknown(mesg[i]) =>
            /\ pc[i] = "none"
            /\ PostedBy(i) = <<>>
            /\ calls[i] = 0
            /\ Listening)

\* an unknown message was dropped and the request after it was answered
C9_Witness ==
    \E i, j \in Ids :
        /\ i < j
        /\ IsUnknown(mesg[i])
        /\ IsRender(j) /\ Finished(j)
        /\ Len(TerminalsOf(j)) = 1

\* the responses handler i posted that end its request
AnswersBy(i) == SelectSeq(PostedBy(i), LAMBDA p : p.mesg.type # "moduleId")

\* C10: a failure inside a handler is caught there and answered with an err
\* response carrying the request's id and the failure; it never leaves the
\* handler; the pipeline is invoked at most once per request; and the worker goes
\* on: the listener takes the next message and every handler that ended has
\* answered.
C10_FailureCaught ==
    /\ unhandled = {}
    /\ Listening
    /\ \A i \in Ids :
          /\ calls[i] <= 1
          /\ Finished(i) => Len(AnswersBy(i)) >= 1
          /\ InFlight(i) => CanResume(i)
          /\ thrown[i] # Null =>
                /\ Finished(i)
                /\ LET errs == SelectSeq(PostedBy(i), LAMBDA p : p.mesg.type = "err")
                   IN  /\ Len(errs) = 1
                       /\ errs[1].mesg.id = i
                       /\ errs[1].mesg.err = thrown[i]

\* the pipeline of one request failed and was answered with err, and a request
\* answered after it got its own response
C10_Witness ==
    \E i, j \in Ids, k, l \in 1..Len(out) :
        /\ i < j
        /\ thrown[i] \in Errors /\ calls[i] = 1
        /\ out[k].by = i /\ out[k].mesg.type = "err"
        /\ Finished(j) /\ thrown[j] = Null
        /\ out[l].by = j /\ out[l].mesg.type \in {"start", "ssrConfig", "noSsrConfig"}
        /\ k < l

\* handler i was answered with the failure of vitePromise, and with nothing else
SawLoaderFailure(i) ==
    /\ thrown[i] = ViteError
    /\ Len(PostedBy(i)) = 1
    /\ PostedBy(i)[1].mesg.type = "err"
    /\ PostedBy(i)[1].mesg.err = ViteError

\* C11: once the construction of the module loader has failed it stays failed
\* and is never attempted again: every caller awaiting the loader, pending at
\* the failure or arriving later, observes the failure and nothing else, and no
\* request ever obtains a loader instance or loads a module.
C11_LoaderFailureIsFinal ==
    /\ [][vite.state = "failed" => (vite' = vite /\ createCalls' = createCalls)]_vars
    /\ [](vite.state = "failed" =>
            /\ createCalls = 1
            /\ loaded = {}
            /\ \A i \in Ids :
                  /\ pc[i] \in {"none", "awaitVite", "done"}
                  /\ calls[i] = 0 /\ returned[i] = Pending
                  /\ pc[i] = "awaitVite" =>
                        /\ ENABLED LoaderRejected(i)
                        /\ ~ ENABLED EntriesRequested(i)
                  /\ pc[i] = "done" => SawLoaderFailure(i))

\* the construction failed: the first request has observed the failure, the
\* second one awaits the loader
C11_Witness ==
    /\ vite.state = "failed"
    /\ pc[1] = "done" /\ SawLoaderFailure(1)
    /\ pc[2] = "awaitVite"

\* the await of vitePromise failed inside handler i
LoaderFailedFor(i) == thrown[i] = ViteError

\* C12 as stated: a failure of the loader construction is not caught by the
\* render and getSsrConfig handlers; it leaves the handler as an uncaught
\* rejection and no err response is posted for the request.
C12_LoaderFailureUncaught ==
    \A i \in Ids :
        LoaderFailedFor(i) =>
            /\ i \in unhandled
            /\ \A k \in 1..Len(out) : out[k].by = i => out[k].mesg.type # "err"

\* C12 amended: a failure of the loader construction is caught by the render
\* and getSsrConfig handlers like any other failure: the handler does not reject,
\* and the request is answered with one err response that carries the request's
\* id and the failure, and with nothing else.
C12_LoaderFailureCaught ==
    \A i \in Ids :
        LoaderFailedFor(i) =>
            /\ i \notin unhandled
            /\ pc[i] = "done"
            /\ Len(Carrying(i)) = 1
            /\ PostedBy(i) = Carrying(i)
            /\ PostedBy(i)[1].mesg = [id |-> i, type |-> "err", err |-> ViteError]
            /\ PostedBy(i)[1].transferList = {}

\* a render and a getSsrConfig request both met the failed construction
C12_Witness ==
    \E i, j \in Ids :
        /\ IsRender(i) /\ IsSsr(j)
        /\ LoaderFailedFor(i) /\ LoaderFailedFor(j)
        /\ Len(PostedBy(i)) = 1 /\ Len(PostedBy(j)) = 1

\* no request has awaited the loader yet
NoneAwaited == \A i \in Ids : pc[i] = "none"

\* C13 as stated: the module loader is constructed lazily: as long as no
\* request has awaited the loader, construction has not started.
C13_LazyConstruction == NoneAwaited => createCalls = 0

\* C13 amended: the module loader is constructed eagerly: construction starts
\* once, when the worker module is evaluated, so it has started before any
\* request is dispatched; no request triggers it: no step starts a construction,
\* and no step of a handler changes the state of the loader handle.
C13_EagerConstruction ==
    /\ [](createCalls = 1 /\ vite.state # "idle")
    /\ [][createCalls' = createCalls]_vars
    /\ [][(nextId' # nextId \/ pc' # pc) => vite' = vite]_vars

\* the construction has completed before any request was dispatched
C13_Witness == nextId = 1 /\ NoneAwaited /\ vite.state = "ready"

CorrelatedTypes == {"start", "err", "moduleId", "ssrConfig", "noSsrConfig"}

\* the messages the plugin callbacks forward
UnsolicitedMesgs ==
    {[type |-> k] : k \in ReloadKinds}
        \cup {[type |-> "module-import", result |-> x.value] :
                  x \in {y \in DelegateInputs : y.kind = "object"}}
        \cup {[type |-> "hot-import", source |-> x.value] :
                  x \in {y \in DelegateInputs : y.kind # "object"}}

\* a message with an id is one of the correlated responses, for a request that
\* has been received; one without an id is a forwarded plugin event
CorrelatedOrUnsolicited(m) ==
    IF "id" \in DOMAIN m
    THEN /\ m.type \in CorrelatedTypes
         /\ m.id \in Ids
         /\ mesg[m.id] # NoMesg
    ELSE m \in UnsolicitedMesgs

\* the step of a plugin callback
PluginStep == events' # events

\* C14: every outbound message is either correlated (start, err, moduleId,
\* ssrConfig, noSsrConfig, carrying the id of a request received earlier) or
\* unsolicited (no id; a reload event of kind k as a message with only type k, a
\* module resolution as module-import with the result or hot-import with the
\* source). Unsolicited messages can be emitted in any state and change no
\* request's responses.
C14_CorrelatedOrUnsolicited ==
    /\ [](\A k \in 1..Len(out) :
            /\ CorrelatedOrUnsolicited(out[k].mesg)
            /\ ("id" \in DOMAIN out[k].mesg) <=> (out[k].by \in Ids))
    /\ [](events < MaxEvents =>
            /\ \A type \in ReloadKinds : ENABLED ReloadEvent(type)
            /\ \A x \in DelegateInputs : ENABLED DelegateEvent(x))
    /\ [][PluginStep =>
            /\ \E m \in UnsolicitedMesgs : out' = PostMessage(out, 0, m, {})
            /\ \A i \in Ids : PostedBy(i)' = PostedBy(i)
            /\ UNCHANGED <<nextId, mesg, pc, rr, frozen, calls, reported, vite,
                           loaded, unhandled, thrown, returned>>]_vars

\* the streams a posted message refers to
StreamsIn(m) ==
    (IF "stream" \in DOMAIN m THEN {m.stream} ELSE {})
        \cup (IF "body" \in DOMAIN m THEN {m.body} ELSE {})

ModuleIdsFor(i) ==
    LET ms == SelectSeq(Carrying(i), LAMBDA p : p.mesg.type = "moduleId")
    IN  [k \in 1..Len(ms) |-> ms[k].mesg.moduleId]

\* request i is a render request that asked for module ids
AskedModuleIds(i) == IsRender(i) /\ mesg[i].hasModuleIdCallback

LoaderAvailable == vite.state = "ready"

\* C17: the loader instance becomes available only after vite.ws.close() has
\* completed: until then no loadEntries or loadServerFile call loads a module and
\* no handler gets past its await of the loader; the instance becomes available
\* only in the step that completes the close; and if the close fails the
\* instance never becomes available.
C17_AvailableAfterClose ==
    /\ [](~ LoaderAvailable =>
            /\ loaded = {}
            /\ \A i \in Ids :
                  /\ pc[i] \in {"none", "awaitVite", "done"}
                  /\ calls[i] = 0
                  /\ ~ ENABLED EntriesRequested(i)
                  /\ ~ ENABLED CustomImport(i))
    /\ [][(LoaderAvailable' /\ ~ LoaderAvailable) => vite.state = "closing"]_vars
    /\ [][(vite.state = "closing" /\ vite'.state # "closing") =>
                vite'.state \in {"ready", "failed"}]_vars
    /\ [][vite.state = "failed" => ~ LoaderAvailable']_vars

\* the close completed and both loadEntries and loadServerFile loaded a module
C17_Witness ==
    /\ LoaderAvailable
    /\ {l.by : l \in loaded} = {"loadEntries", "loadServerFile"}
    /\ \E i \in Ids : pc[i] = "pipeline"

\* awaiting the loader or loading the entry module failed for request i
EntriesUnavailable(i) == thrown[i] \in {ViteError, EntriesError}

PipelineResponses == {"moduleId", "start", "ssrConfig", "noSsrConfig"}

\* C18: renderRsc / getSsrConfig is invoked for a request only after the
\* loader has resolved and the request's entry module has been loaded; if the
\* await of the loader or the load of the entry module fails, the pipeline is
\* never invoked for the request and no moduleId, start, ssrConfig or noSsrConfig
\* response is emitted for it.
C18_PipelineAfterEntries ==
    /\ [][\A i \in Ids :
            calls'[i] # calls[i] =>
                /\ pc[i] = "loadEntries"
                /\ LoaderAvailable
                /\ \E l \in loaded : l.by = "loadEntries" /\ l.instance = vite.instance]_vars
    /\ [][\A i \in Ids : pc'[i] = "loadEntries" => (pc[i] = "loadEntries" \/
            (pc[i] = "awaitVite" /\ LoaderAvailable /\ calls[i] = 0))]_vars
    /\ [](\A i \in Ids :
            /\ pc[i] \in {"pipeline", "streaming"} => calls[i] = 1
            /\ pc[i] \in {"none", "awaitVite", "loadEntries"} =>
                  (calls[i] = 0 /\ PostedBy(i) = <<>>)
            /\ EntriesUnavailable(i) =>
                  /\ calls[i] = 0
                  /\ reported[i] = <<>>
                  /\ returned[i] = Pending
                  /\ \A k \in 1..Len(out) :
                        (out[k].by = i \/ out[k] \in Range(Carrying(i))) =>
                            out[k].mesg.type \notin PipelineResponses)

\* loading the entries failed for one request, which was answered, while the
\* pipeline of another one was invoked
C18_Witness ==
    \E i, j \in Ids :
        /\ thrown[i] = EntriesError /\ Len(PostedBy(i)) = 1
        /\ calls[j] = 1 /\ Len(PostedBy(j)) >= 1

\* C19: once the start message of a render request has been posted, the
\* handler posts no err response for the same id, also when the step after the
\* post, deepFreeze of the context, fails.
C19_NoErrAfterStart ==
    \A k, l \in 1..Len(out) :
        (k < l /\ out[k].mesg.type = "start" /\ out[k].by \in Ids /\ IsRender(out[k].by)) =>
            ~ (out[l].by = out[k].by /\ out[l].mesg.type = "err"
               /\ out[l].mesg.id = out[k].mesg.id)

\* the response handler i posted for the config its resolver returned
SsrResponse(i) == PostedBy(i)[Len(PostedBy(i))].mesg

\* C20: the response to a getSsrConfig request whose resolver returned a
\* config carries the request's id and the type ssrConfig, whatever fields the
\* config has: the resolver's fields never replace the id or the type tag.
C20_SsrConfigIdAndType ==
    \A i \in Ids :
        (IsSsr(i) /\ returned[i] \notin {Pending, Null}) =>
            /\ SsrResponse(i).id = mesg[i].id
            /\ SsrResponse(i).type = "ssrConfig"

====
